---- MODULE Spec2Model ----
(***************************************************************************)
(* Model of the Metricool MCP server: the process start-up (environment    *)
(* validation, transport connection), the MetricoolClient HTTP client and  *)
(* the CallTool / ListTools request handlers.                              *)
(*                                                                         *)
(* JavaScript values are modelled as follows.  A string is a TLA+ string;  *)
(* `undefined` is the string UNDEF; a JSON value that is not a string is   *)
(* NONSTR.  A JSON object is a function whose domain is the set of the     *)
(* fields that are present.  An error message built by a template literal  *)
(* is the sequence of its parts, so that "the message contains the body"   *)
(* is membership of a part.                                                *)
(***************************************************************************)
EXTENDS Integers, Sequences, FiniteSets, TLC

VARIABLES env, phase, client, stderr, exitCode, served, failedBefore, last

vars == <<env, phase, client, stderr, exitCode, served, failedBefore, last>>

(***************************************************************************)
(* Bounds of the model.                                                    *)
(***************************************************************************)
MaxCalls == 2
MaxPosts == 2
MaxRecords == 2
MaxSlots == 6
MaxClientItems == 1

(***************************************************************************)
(* JavaScript values.                                                      *)
(***************************************************************************)
UNDEF == "<undefined>"
NONSTR == "<number>"

Truthy(v) == v \notin {UNDEF, ""}

OrElse(v, d) == IF Truthy(v) THEN v ELSE d

\* { ...a, ...b }: the fields of b win over those of a.
Spread(a, b) ==
  [k \in (DOMAIN a) \cup (DOMAIN b) |-> IF k \in DOMAIN b THEN b[k] ELSE a[k]]

EmptyObject == [k \in {} |-> UNDEF]

\* String(v) as URLSearchParams and template literals apply it.
ToStr(v) == IF v = UNDEF THEN "undefined" ELSE v

Min(a, b) == IF a <= b THEN a ELSE b

SeqsUpTo(S, n) == UNION {[1..k -> S] : k \in 0..n}

Contains(msg, part) == \E i \in 1..Len(msg) : msg[i] = part

(***************************************************************************)
(* The upstream service: what one fetch may produce.                       *)
(***************************************************************************)
Statuses == {200, 201, 299, 199, 300, 403, 500}
ErrorBodies == {"forbidden", "rate limited"}

ResponseOk(status) == status >= 200 /\ status <= 299

Rejected == [kind |-> "reject", status |-> 0, text |-> "", json |-> "none", data |-> <<>>]

HttpError(status, text) ==
  [kind |-> "response", status |-> status, text |-> text, json |-> "none", data |-> <<>>]

HttpOk(status, json, data) ==
  [kind |-> "response", status |-> status, text |-> "", json |-> json, data |-> data]

NoUpstream == [kind |-> "none", status |-> 0, text |-> "", json |-> "none", data |-> <<>>]

\* Every outcome of one fetch whose successful JSON body, when it has the
\* declared shape, is drawn from Typed.
Upstreams(Typed) ==
  {Rejected}
    \cup {HttpError(s, t) : s \in {s \in Statuses : ~ResponseOk(s)}, t \in ErrorBodies}
    \cup {HttpOk(s, j, <<>>) : s \in {s \in Statuses : ResponseOk(s)},
                               j \in {"invalid", "empty_object"}}
    \cup {HttpOk(200, "typed", d) : d \in Typed}

(***************************************************************************)
(* Outcomes of an asynchronous operation: the fetches it issued, and       *)
(* either the value it resolved to or the error it threw.                  *)
(***************************************************************************)
JsError(message) == [isError |-> TRUE, message |-> message]

NoError == [isError |-> FALSE, message |-> <<>>]

Throw(fetches, error) ==
  [fetches |-> fetches, threw |-> TRUE, error |-> error, json |-> "none", data |-> <<>>]

Return(fetches, json, data) ==
  [fetches |-> fetches, threw |-> FALSE, error |-> NoError, json |-> json, data |-> data]

(***************************************************************************)
(* MetricoolClient                                                         *)
(***************************************************************************)
baseUrl == "https://app.metricool.com/api"

MetricoolClient(config) == [token |-> config.token, userId |-> config.userId]

NoClient == [token |-> UNDEF, userId |-> UNDEF]

NoOptions == EmptyObject

OptionsHeaders(options) ==
  IF "headers" \in DOMAIN options THEN options.headers ELSE EmptyObject

\* headers: { "X-Mc-Auth": token, "Content-Type": ..., ...options.headers }
RequestHeaders(c, options) ==
  Spread([k \in {"X-Mc-Auth", "Content-Type"} |->
            IF k = "X-Mc-Auth" THEN c.token ELSE "application/json"],
         OptionsHeaders(options))

\* The argument of fetch: { ...options, headers: {...} } at the url.
FetchCall(c, endpoint, options) ==
  [url |-> [base |-> baseUrl, path |-> endpoint.path, query |-> endpoint.query],
   init |-> Spread(options, [k \in {"headers"} |-> RequestHeaders(c, options)])]

\* The message without the response body.
ApiErrorMessageNoBody(status, errorText) ==
  <<"Metricool API error (", ToString(status), ")">>

ApiErrorMessage(status, errorText) ==
  <<"Metricool API error (", ToString(status), "): ", errorText>>

\* A request that fetches a second time when the first fetch fails.
requestRetry(c, endpoint, options, up) ==
  LET fetch == FetchCall(c, endpoint, options) IN
  IF up.kind = "reject"
    THEN Throw(<<fetch, fetch>>, JsError(<<"fetch failed">>))
  ELSE IF ~ResponseOk(up.status)
    THEN Throw(<<fetch, fetch>>, JsError(ApiErrorMessage(up.status, up.text)))
  ELSE IF up.json = "invalid"
    THEN Throw(<<fetch>>, JsError(<<"Unexpected token in JSON">>))
  ELSE Return(<<fetch>>, up.json, up.data)

request(c, endpoint, options, up) ==
  LET fetches == <<FetchCall(c, endpoint, options)>> IN
  IF up.kind = "reject"
    THEN Throw(fetches, JsError(<<"fetch failed">>))
  ELSE IF ~ResponseOk(up.status)
    THEN Throw(fetches, JsError(ApiErrorMessage(up.status, up.text)))
  ELSE IF up.json = "invalid"
    THEN Throw(fetches, JsError(<<"Unexpected token in JSON">>))
  ELSE Return(fetches, up.json, up.data)

getBrands(c, up) ==
  request(c, [path |-> "/admin/simpleProfiles", query |-> [userId |-> c.userId]],
          NoOptions, up)

DefaultTimezone == "America/Costa_Rica"

\* JSON.stringify(body): a field whose value is undefined is left out.
SchedulePostBody(params) ==
  LET network == OrElse(params.network, "linkedin")
      base == [text |-> params.text,
               publicationDate |-> [dateTime |-> params.dateTime,
                                    timezone |-> OrElse(params.timezone, DefaultTimezone)],
               providers |-> <<[network |-> network]>>,
               autoPublish |-> TRUE]
      linkedin == IF network = "linkedin"
                    THEN [k \in {"linkedinData"} |->
                            [previewIncluded |-> TRUE, type |-> "POST"]]
                    ELSE EmptyObject
      media == IF Truthy(params.imageUrl)
                 THEN [k \in {"media"} |-> <<params.imageUrl>>]
                 ELSE EmptyObject
  IN Spread(Spread(base, linkedin), media)

\* response.data of an object without a data field is undefined.
DataOf(r) == IF r.json = "typed" THEN r ELSE [r EXCEPT !.json = "undefined"]

schedulePost(c, params, up) ==
  LET r == request(c,
                   [path |-> "/v2/scheduler/posts",
                    query |-> [userId |-> c.userId, blogId |-> ToStr(params.brandId)]],
                   [method |-> "POST", body |-> SchedulePostBody(params)],
                   up)
  IN IF r.threw THEN r ELSE DataOf(r)

\* response.data || []
DataOrEmpty(r) == IF r.json = "typed" THEN r ELSE Return(r.fetches, "typed", <<>>)

getScheduledPosts(c, brandId, up) ==
  LET r == request(c,
                   [path |-> "/v2/scheduler/posts",
                    query |-> [userId |-> c.userId, blogId |-> ToStr(brandId),
                               start |-> "formatDateTime(now)",
                               end |-> "formatDateTime(now+60d)",
                               timezone |-> DefaultTimezone]],
                   NoOptions, up)
  IN IF r.threw THEN r ELSE DataOrEmpty(r)

\* s.replace(/-/g, "") on the date strings of the model.
StripHyphens(s) ==
  CASE s = "2024-01-15" -> "20240115"
    [] s = "2024-02-15" -> "20240215"
    [] OTHER -> s

getAnalytics(c, params, up) ==
  IF params.startDate = NONSTR \/ params.endDate = NONSTR
    THEN Throw(<<>>, JsError(<<"replace is not a function">>))
    ELSE
      LET startDate == IF Truthy(params.startDate)
                         THEN StripHyphens(params.startDate)
                         ELSE "formatDate(now-30d)"
          endDate == IF Truthy(params.endDate)
                       THEN StripHyphens(params.endDate)
                       ELSE "formatDate(now)"
      IN request(c,
                 [path |-> "/stats/linkedin/posts",
                  query |-> [userId |-> c.userId, blogId |-> ToStr(params.brandId),
                             start |-> startDate, end |-> endDate]],
                 NoOptions, up)

getBestTime(c, brandId, up) ==
  LET r == request(c,
                   [path |-> "/v2/scheduler/besttimes/linkedin",
                    query |-> [userId |-> c.userId, blogId |-> ToStr(brandId)]],
                   NoOptions, up)
  IN IF r.threw THEN r ELSE DataOrEmpty(r)

deleteScheduledPost(c, postId, up) ==
  request(c, [path |-> "/scheduler/post/" \o postId, query |-> [userId |-> c.userId]],
          [method |-> "DELETE"], up)

(***************************************************************************)
(* The tool catalog and the reshaping helpers of the CallTool handler.     *)
(***************************************************************************)
TOOLS ==
  <<[name |-> "metricool_get_brands", required |-> {},
     properties |-> {}],
    [name |-> "metricool_schedule_post", required |-> {"brandId", "text", "dateTime"},
     properties |-> {"brandId", "text", "dateTime", "timezone", "imageUrl"}],
    [name |-> "metricool_get_scheduled_posts", required |-> {"brandId"},
     properties |-> {"brandId"}],
    [name |-> "metricool_get_analytics", required |-> {"brandId"},
     properties |-> {"brandId", "startDate", "endDate"}],
    [name |-> "metricool_get_best_time", required |-> {"brandId"},
     properties |-> {"brandId"}]>>

CatalogNames == {TOOLS[i].name : i \in 1..Len(TOOLS)}

\* obj.f of a JSON object: undefined when the field is absent.
Field(obj, f) == IF f \in DOMAIN obj THEN obj[f] ELSE UNDEF

\* obj.f || rest, for a numeric field: absent and 0 are both falsy.
NumOr(obj, f, rest) == IF f \in DOMAIN obj /\ obj[f] # 0 THEN obj[f] ELSE rest

\* Texts are modelled by their length: `chars` characters of the original,
\* followed by the marker "..." when `ellipsis` holds.
EmptyText == [chars |-> 0, ellipsis |-> FALSE]

PlainText(n) == [chars |-> n, ellipsis |-> FALSE]

\* text.substring(0, limit) + (text.length > limit ? "..." : "")
Truncate(text, limit) == [chars |-> Min(text.chars, limit), ellipsis |-> text.chars > limit]

MapSeq(s, F(_)) == [i \in 1..Len(s) |-> F(s[i])]

\* s.slice(0, n)
Slice(s, n) == SubSeq(s, 1, Min(n, Len(s)))

\* > in place of >=: a later item overtakes the earlier items of its key.
RECURSIVE InsertUnstable(_, _)
InsertUnstable(x, s) ==
  IF s = <<>> THEN <<x>>
  ELSE IF Head(s).key > x.key THEN <<Head(s)>> \o InsertUnstable(x, Tail(s))
  ELSE <<x>> \o s

\* Array.prototype.sort with the comparator (a, b) => key(b) - key(a): a stable
\* sort, descending by key.  Items are [key, item] pairs.
RECURSIVE InsertDesc(_, _)
InsertDesc(x, s) ==
  IF s = <<>> THEN <<x>>
  ELSE IF Head(s).key >= x.key THEN <<Head(s)>> \o InsertDesc(x, Tail(s))
  ELSE <<x>> \o s

RECURSIVE SortDesc(_)
SortDesc(s) ==
  IF s = <<>> THEN <<>>
  ELSE InsertDesc(s[Len(s)], SortDesc(SubSeq(s, 1, Len(s) - 1)))

SortByKey(s, Key(_)) ==
  LET keyed == [i \in 1..Len(s) |-> [key |-> Key(s[i]), item |-> s[i]]]
      sorted == SortDesc(keyed)
  IN [i \in 1..Len(sorted) |-> sorted[i].item]

NETWORK_FIELDS ==
  <<[field |-> "linkedinCompany", network |-> "linkedin"],
    [field |-> "twitter", network |-> "twitter"],
    [field |-> "facebook", network |-> "facebook"],
    [field |-> "instagram", network |-> "instagram"],
    [field |-> "youtube", network |-> "youtube"],
    [field |-> "tiktok", network |-> "tiktok"],
    [field |-> "threads", network |-> "threads"],
    [field |-> "bluesky", network |-> "bluesky"]>>

FormatBrand(b) ==
  LET Connected(n) == Truthy(Field(b, n.field))
      Name(n) == n.network
  IN [id |-> ToString(b.id), name |-> b.label,
      networks |-> MapSeq(SelectSeq(NETWORK_FIELDS, Connected), Name)]

\* every in place of some
HasPendingAll(p) == \A i \in 1..Len(p.providers) : p.providers[i].status = "PENDING"

\* p.providers.some((prov) => prov.status === "PENDING")
HasPending(p) == \E i \in 1..Len(p.providers) : p.providers[i].status = "PENDING"

ProviderNetwork(prov) == prov.network

ReshapePost(p) ==
  [id |-> p.id, uuid |-> p.uuid, text |-> Truncate(p.text, 100),
   scheduledDate |-> p.publicationDate.dateTime,
   timezone |-> p.publicationDate.timezone,
   networks |-> MapSeq(p.providers, ProviderNetwork),
   status |-> IF p.providers = <<>> THEN "Unknown"
              ELSE OrElse(p.providers[1].detailedStatus, "Unknown")]

\* The six totals of the reduce at index.ts:210-220, for one record.
RecordStats(p) ==
  [impressions |-> NumOr(p, "impressions", 0),
   engagements |-> NumOr(p, "engagements", NumOr(p, "engagement", 0)),
   clicks |-> NumOr(p, "clicks", 0),
   likes |-> NumOr(p, "likes", NumOr(p, "reactions", 0)),
   comments |-> NumOr(p, "comments", 0),
   shares |-> NumOr(p, "shares", 0)]

ZeroTotals ==
  [impressions |-> 0, engagements |-> 0, clicks |-> 0, likes |-> 0, comments |-> 0,
   shares |-> 0]

AddStats(acc, st) == [f \in DOMAIN acc |-> acc[f] + st[f]]

RECURSIVE Totals(_)
Totals(posts) ==
  IF posts = <<>> THEN ZeroTotals
  ELSE AddStats(Totals(SubSeq(posts, 1, Len(posts) - 1)), RecordStats(posts[Len(posts)]))

\* ((engagements / impressions) * 100).toFixed(2) + "%", in hundredths of a percent.
TwoDigits(n) == IF n < 10 THEN "0" \o ToString(n) ELSE ToString(n)

EngagementRate(totals) ==
  IF totals.impressions > 0
    THEN LET h == (2 * 10000 * totals.engagements + totals.impressions)
                    \div (2 * totals.impressions)
         IN ToString(h \div 100) \o "." \o TwoDigits(h % 100) \o "%"
    ELSE "0.00%"

EngagementOf(p) == NumOr(p, "engagements", NumOr(p, "engagement", 0))

TextOr(p, f, rest) == IF f \in DOMAIN p /\ p[f].chars > 0 THEN p[f] ELSE rest

TopPost(p) ==
  [id |-> OrElse(Field(p, "id"), Field(p, "postId")),
   text |-> Truncate(TextOr(p, "text", TextOr(p, "content", EmptyText)), 80),
   publishedAt |-> OrElse(Field(p, "publishedAt"), Field(p, "date")),
   impressions |-> NumOr(p, "impressions", 0),
   engagements |-> EngagementOf(p)]

DAYS_OF_WEEK ==
  <<"Sunday", "Monday", "Tuesday", "Wednesday", "Thursday", "Friday", "Saturday">>

formatHour(hour) ==
  LET suffix == IF hour >= 12 THEN "PM" ELSE "AM"
      displayHour == IF hour = 0 THEN 12 ELSE IF hour > 12 THEN hour - 12 ELSE hour
  IN ToString(displayHour) \o ":00 " \o suffix

SlotScore(s) == s.score

\* DAYS_OF_WEEK is indexed from 0 in the source.
FormatSlot(s) ==
  [day |-> DAYS_OF_WEEK[s.dayOfWeek + 1], time |-> formatHour(s.hour), score |-> s.score]

(***************************************************************************)
(* The CallTool handler.  A result carries the fetches issued on its       *)
(* behalf, the exception raised inside the try block (if any), whether an  *)
(* exception escaped the handler, and the payload returned.                *)
(***************************************************************************)
Payload(fetches, isError, body) ==
  [fetches |-> fetches, threw |-> FALSE, error |-> NoError, uncaught |-> FALSE,
   isError |-> isError, body |-> body]

Thrown(fetches, error) ==
  [fetches |-> fetches, threw |-> TRUE, error |-> error, uncaught |-> TRUE,
   isError |-> FALSE, body |-> EmptyObject]

\* typedArgs.f when the request carries no arguments object.
ReadOfUndefined(f) ==
  JsError(<<"Cannot read properties of undefined (reading '", f, "')">>)

NotAFunction(what) == JsError(<<what, " is not a function">>)

CaseGetBrands(c, args, up) ==
  LET r == getBrands(c, up) IN
  IF r.threw THEN Thrown(r.fetches, r.error)
  ELSE IF r.json # "typed" THEN Thrown(r.fetches, NotAFunction("brands.map"))
  ELSE Payload(r.fetches, FALSE,
               [success |-> TRUE, brands |-> MapSeq(r.data, FormatBrand)])

\* The params object of index.ts:149-155 has no network property.
SchedulePostParams(args) ==
  [brandId |-> args.brandId, text |-> args.text, dateTime |-> args.dateTime,
   timezone |-> OrElse(args.timezone, DefaultTimezone), imageUrl |-> args.imageUrl,
   network |-> UNDEF]

CaseSchedulePost(c, args, up) ==
  IF ~args.defined THEN Thrown(<<>>, ReadOfUndefined("brandId"))
  ELSE
    LET r == schedulePost(c, SchedulePostParams(args), up) IN
    IF r.threw THEN Thrown(r.fetches, r.error)
    ELSE IF r.json # "typed" THEN Thrown(r.fetches, ReadOfUndefined("id"))
    ELSE
      LET result == r.data IN
      Payload(r.fetches, FALSE,
              [success |-> TRUE, message |-> "Post scheduled successfully",
               postId |-> Field(result, "id"), uuid |-> Field(result, "uuid"),
               scheduledDate |-> IF "publicationDate" \in DOMAIN result
                                   THEN result.publicationDate.dateTime ELSE UNDEF,
               networks |-> IF "providers" \in DOMAIN result
                              THEN MapSeq(result.providers, ProviderNetwork)
                              ELSE <<>>])

CaseGetScheduledPosts(c, args, up) ==
  IF ~args.defined THEN Thrown(<<>>, ReadOfUndefined("brandId"))
  ELSE
    LET r == getScheduledPosts(c, args.brandId, up) IN
    IF r.threw THEN Thrown(r.fetches, r.error)
    ELSE
      LET pendingPosts == SelectSeq(r.data, HasPending) IN
      Payload(r.fetches, FALSE,
              [success |-> TRUE, count |-> Len(pendingPosts),
               posts |-> MapSeq(pendingPosts, ReshapePost)])

CaseGetAnalytics(c, args, up) ==
  IF ~args.defined THEN Thrown(<<>>, ReadOfUndefined("brandId"))
  ELSE
    LET r == getAnalytics(c, [brandId |-> args.brandId, startDate |-> args.startDate,
                              endDate |-> args.endDate], up) IN
    IF r.threw THEN Thrown(r.fetches, r.error)
    ELSE IF r.json # "typed" THEN Thrown(r.fetches, NotAFunction("posts.reduce"))
    ELSE
      LET posts == r.data
          totals == Totals(posts)
      IN Payload(r.fetches, FALSE,
                 [success |-> TRUE,
                  summary |-> [impressions |-> totals.impressions,
                               engagements |-> totals.engagements,
                               engagementRate |-> EngagementRate(totals),
                               clicks |-> totals.clicks, likes |-> totals.likes,
                               comments |-> totals.comments, shares |-> totals.shares],
                  postCount |-> Len(posts),
                  topPosts |-> MapSeq(Slice(SortByKey(posts, EngagementOf), 5), TopPost)])

CaseGetBestTime(c, args, up) ==
  IF ~args.defined THEN Thrown(<<>>, ReadOfUndefined("brandId"))
  ELSE
    LET r == getBestTime(c, args.brandId, up) IN
    IF r.threw THEN Thrown(r.fetches, r.error)
    ELSE
      LET sortedSlots == SortByKey(r.data, SlotScore)
          topSlots == Slice(sortedSlots, 5)
      IN Payload(r.fetches, FALSE,
                 [success |-> TRUE,
                  recommendation |-> "Based on your audience engagement patterns, here are the best times to post:",
                  topSlots |-> MapSeq(topSlots, FormatSlot)])

\* A default case that forgets the isError flag.
CaseDefaultUnflagged(name) ==
  Payload(<<>>, FALSE, [error |-> <<"Unknown tool: ", name>>])

CaseDefault(name) ==
  Payload(<<>>, TRUE, [error |-> <<"Unknown tool: ", name>>])

\* switch (name) { ... } inside the try block
TryBlock(c, name, args, up) ==
  CASE name = "metricool_get_brands" -> CaseGetBrands(c, args, up)
    [] name = "metricool_schedule_post" -> CaseSchedulePost(c, args, up)
    [] name = "metricool_get_scheduled_posts" -> CaseGetScheduledPosts(c, args, up)
    [] name = "metricool_get_analytics" -> CaseGetAnalytics(c, args, up)
    [] name = "metricool_get_best_time" -> CaseGetBestTime(c, args, up)
    [] OTHER -> CaseDefault(name)

\* A handler without the catch clause: the exception leaves the handler.
Rethrow(t) == t

\* catch (error) { ... }
CatchBlock(t) ==
  [t EXCEPT !.uncaught = FALSE, !.isError = TRUE,
            !.body = [success |-> FALSE,
                      error |-> IF t.error.isError THEN t.error.message
                                ELSE <<"Unknown error">>]]

CallToolHandler(c, name, args, up) ==
  LET t == TryBlock(c, name, args, up) IN
  IF t.threw THEN CatchBlock(t) ELSE t

ListToolsHandler == [tools |-> TOOLS]

(***************************************************************************)
(* Inputs: the environment, the requests of the MCP peer, and the          *)
(* responses of the upstream service.                                      *)
(***************************************************************************)
TokenValues == {UNDEF, "", "tok-1"}
UserIdValues == {UNDEF, "", "user-7"}

NoArgs ==
  [defined |-> FALSE, brandId |-> UNDEF, text |-> UNDEF, dateTime |-> UNDEF,
   timezone |-> UNDEF, imageUrl |-> UNDEF, network |-> UNDEF, startDate |-> UNDEF,
   endDate |-> UNDEF]

EmptyArgs == [NoArgs EXCEPT !.defined = TRUE]

BrandIds == {"b1", UNDEF}

BrandArgs == {NoArgs, [EmptyArgs EXCEPT !.brandId = "b1"]}

SchedulePostArgs ==
  {NoArgs} \cup
  {[EmptyArgs EXCEPT !.brandId = b, !.text = "hello", !.dateTime = "2024-01-15T10:00:00",
                     !.timezone = tz, !.imageUrl = img, !.network = n] :
     b \in BrandIds, tz \in {UNDEF, "", "Europe/Madrid"},
     img \in {UNDEF, "https://img/1.png"}, n \in {UNDEF, "linkedin", "instagram"}}

AnalyticsArgs ==
  {NoArgs} \cup
  {[EmptyArgs EXCEPT !.brandId = "b1", !.startDate = d[1], !.endDate = d[2]] :
     d \in {<<UNDEF, UNDEF>>, <<"2024-01-15", "2024-02-15">>, <<NONSTR, UNDEF>>,
            <<"2024-01-15", NONSTR>>}}

UnknownNames == {"metricool_delete_scheduled_post", "metricool_get_brand", ""}

ToolNames == CatalogNames \cup UnknownNames

ArgsFor(name) ==
  CASE name = "metricool_get_brands" -> {NoArgs, EmptyArgs}
    [] name = "metricool_schedule_post" -> SchedulePostArgs
    [] name = "metricool_get_analytics" -> AnalyticsArgs
    [] name \in UnknownNames -> {NoArgs, [EmptyArgs EXCEPT !.brandId = "b1"]}
    [] OTHER -> BrandArgs

\* Brand[]
BrandLists ==
  LET b1 == [id |-> 1, label |-> "Acme", linkedinCompany |-> "acme", instagram |-> "acme.ig"]
      b2 == [id |-> 2, label |-> "Solo", bluesky |-> "solo.bsky", twitter |-> "",
             facebook |-> "solo.fb"]
      b3 == [id |-> 3, label |-> "Bare"]
  IN {<<>>, <<b1>>, <<b2, b1>>, <<b3>>}

Provider(network, status, detailedStatus) ==
  [network |-> network, status |-> status, detailedStatus |-> detailedStatus]

ProviderLists ==
  {<<>>,
   <<Provider("linkedin", "PENDING", "Pending")>>,
   <<Provider("linkedin", "PUBLISHED", "Published")>>,
   <<Provider("linkedin", "pending", "")>>,
   <<Provider("facebook", "ERROR", "Failed"), Provider("linkedin", "PENDING", "Pending")>>,
   <<Provider("linkedin", "PUBLISHED", ""), Provider("facebook", "ERROR", "Failed")>>}

TextLengths == {50, 150}

\* The i-th post of an upstream listing; ids are distinct.
PostAt(i, providers, len) ==
  [id |-> i, uuid |-> "uuid-" \o ToString(i), text |-> PlainText(len),
   publicationDate |-> [dateTime |-> "2024-02-0" \o ToString(i) \o "T09:00:00",
                        timezone |-> "America/Costa_Rica"],
   providers |-> providers, draft |-> FALSE]

\* ScheduledPost[], of at most n posts
PostListsUpTo(n) ==
  UNION {{[i \in 1..k |-> PostAt(i, f[i][1], f[i][2])] :
            f \in [1..k -> ProviderLists \X TextLengths]} : k \in 0..n}

ScheduledPostLists == PostListsUpTo(MaxPosts)

\* ScheduledPost, as the creation endpoint returns it
ScheduleResults ==
  {PostAt(1, <<Provider("linkedin", "PENDING", "Pending")>>, 50),
   [id |-> 7, uuid |-> "uuid-7"]}

Opt(f, V) == {EmptyObject} \cup {[k \in {f} |-> v] : v \in V}

\* LinkedInPost
AnalyticsRecords ==
  {Spread(Spread(a, b), c) :
     a \in Opt("impressions", {100}), b \in Opt("engagements", {0, 10}),
     c \in Opt("engagement", {5})}
  \cup {Spread(a, b) : a \in Opt("likes", {0, 3}), b \in Opt("reactions", {2})}
  \cup {[impressions |-> 50, engagement |-> 5],
        [postId |-> "p9", content |-> PlainText(120), date |-> "2024-01-10",
         clicks |-> 1, comments |-> 2, shares |-> 3],
        [id |-> "p1", text |-> PlainText(10), publishedAt |-> "2024-01-11",
         impressions |-> 0, clicks |-> 4, engagements |-> 7]}

AnalyticsLists == SeqsUpTo(AnalyticsRecords, MaxRecords)

Scores == {1, 2, 3}

\* The hour of the i-th slot of an upstream listing: 0, 12, 1, 13, 2, 14, ...
\* so that the slots of one listing differ.
HourAt(i) == (12 * ((i - 1) % 2) + ((i - 1) \div 2)) % 24

SlotAt(i, score) == [dayOfWeek |-> (i - 1) % 7, hour |-> HourAt(i), score |-> score]

\* BestTimeSlot[], of at most n slots
SlotListsUpTo(n) ==
  UNION {{[i \in 1..k |-> SlotAt(i, f[i])] : f \in [1..k -> Scores]} : k \in 0..n}

SlotLists == SlotListsUpTo(MaxSlots)

TypedFor(name) ==
  CASE name = "metricool_get_brands" -> BrandLists
    [] name = "metricool_schedule_post" -> ScheduleResults
    [] name = "metricool_get_scheduled_posts" -> ScheduledPostLists
    [] name = "metricool_get_analytics" -> AnalyticsLists
    [] name = "metricool_get_best_time" -> SlotLists
    [] OTHER -> {<<>>}

(***************************************************************************)
(* The process.                                                            *)
(***************************************************************************)
NoCall ==
  [kind |-> "none", name |-> "", args |-> NoArgs, up |-> NoUpstream,
   result |-> Payload(<<>>, FALSE, EmptyObject)]

DiagnosticMissingEnv ==
  "Error: METRICOOL_TOKEN and METRICOOL_USER_ID environment variables are required"

Init ==
  /\ env \in [METRICOOL_TOKEN : TokenValues, METRICOOL_USER_ID : UserIdValues]
  /\ phase = "load"
  /\ client = NoClient
  /\ stderr = <<>>
  /\ exitCode = <<>>
  /\ served = 0
  /\ failedBefore = FALSE
  /\ last = NoCall

\* !METRICOOL_TOKEN && !METRICOOL_USER_ID
EnvMissingBoth(e) == ~Truthy(e.METRICOOL_TOKEN) /\ ~Truthy(e.METRICOOL_USER_ID)

\* !METRICOOL_TOKEN || !METRICOOL_USER_ID
EnvMissing(e) == ~Truthy(e.METRICOOL_TOKEN) \/ ~Truthy(e.METRICOOL_USER_ID)

\* Module evaluation: validate the environment, build the client and the
\* server, register the handlers.
LoadModule ==
  /\ phase = "load"
  /\ IF EnvMissing(env)
       THEN /\ stderr' = Append(stderr, DiagnosticMissingEnv)
            /\ exitCode' = <<1>>
            /\ phase' = "exited"
            /\ UNCHANGED client
       ELSE /\ client' = MetricoolClient([token |-> env.METRICOOL_TOKEN,
                                          userId |-> env.METRICOOL_USER_ID])
            /\ phase' = "loaded"
            /\ UNCHANGED <<stderr, exitCode>>
  /\ UNCHANGED <<env, served, failedBefore, last>>

\* main(): server.connect(transport) resolves.
ConnectOk ==
  /\ phase = "loaded"
  /\ stderr' = Append(stderr, "Metricool MCP server running on stdio")
  /\ phase' = "running"
  /\ UNCHANGED <<env, client, exitCode, served, failedBefore, last>>

\* main().catch: server.connect(transport) rejects.
ConnectFail ==
  /\ phase = "loaded"
  /\ stderr' = Append(stderr, "Fatal error:")
  /\ exitCode' = <<1>>
  /\ phase' = "exited"
  /\ UNCHANGED <<env, client, served, failedBefore, last>>

\* The ListTools handler runs to completion: it awaits nothing.
ListTools ==
  /\ phase = "running"
  /\ last.kind = "none"
  /\ served < MaxCalls
  /\ last' = [kind |-> "listed", name |-> "", args |-> NoArgs, up |-> NoUpstream,
              result |-> Payload(<<>>, FALSE, ListToolsHandler)]
  /\ UNCHANGED <<env, phase, client, stderr, exitCode, served, failedBefore>>

\* A tools/call request arrives and its handler starts.
ReceiveCall ==
  /\ phase = "running"
  /\ last.kind = "none"
  /\ served < MaxCalls
  /\ \E name \in ToolNames :
       \E args \in ArgsFor(name) :
         last' = [kind |-> "pending", name |-> name, args |-> args, up |-> NoUpstream,
                  result |-> Payload(<<>>, FALSE, EmptyObject)]
  /\ UNCHANGED <<env, phase, client, stderr, exitCode, served, failedBefore>>

\* The handler runs to its return (or to the exception that leaves it), the
\* upstream service answering the fetch it awaits, if it issues one.
CompleteCall ==
  /\ phase = "running"
  /\ last.kind = "pending"
  /\ \E up \in Upstreams(TypedFor(last.name)) :
       LET res == CallToolHandler(client, last.name, last.args, up) IN
       /\ last' = [last EXCEPT !.kind = "done",
                               !.up = IF res.fetches = <<>> THEN NoUpstream ELSE up,
                               !.result = res]
       /\ phase' = IF res.uncaught THEN "crashed" ELSE "running"
  /\ UNCHANGED <<env, client, stderr, exitCode, served, failedBefore>>

\* The server writes the handler's result to the transport.
SendResponse ==
  /\ phase = "running"
  /\ last.kind \in {"done", "listed"}
  /\ last' = NoCall
  /\ served' = served + 1
  /\ failedBefore' = (failedBefore \/ last.result.isError)
  /\ UNCHANGED <<env, phase, client, stderr, exitCode>>

Next ==
  \/ LoadModule
  \/ ConnectOk
  \/ ConnectFail
  \/ ListTools
  \/ ReceiveCall
  \/ CompleteCall
  \/ SendResponse

Spec == Init /\ [][Next]_vars

(***************************************************************************)
(* The client and the handler as functions: a configured client, and one   *)
(* application of one operation to inputs drawn from the sets above.       *)
(***************************************************************************)
InitClient ==
  /\ env = [METRICOOL_TOKEN |-> "tok-1", METRICOOL_USER_ID |-> "user-7"]
  /\ phase = "running"
  /\ client = MetricoolClient([token |-> env.METRICOOL_TOKEN,
                               userId |-> env.METRICOOL_USER_ID])
  /\ stderr = <<>>
  /\ exitCode = <<>>
  /\ served = 0
  /\ failedBefore = FALSE
  /\ last = NoCall

\* The typed answers the operations are applied to.
ClientTypedFor(name) ==
  CASE name = "metricool_get_brands" -> BrandLists
    [] name = "metricool_schedule_post" -> ScheduleResults
    [] name = "metricool_get_scheduled_posts" -> PostListsUpTo(MaxClientItems)
    [] name = "metricool_get_analytics" -> SeqsUpTo(AnalyticsRecords, MaxClientItems)
    [] name = "metricool_get_best_time" -> SlotListsUpTo(MaxClientItems)
    [] OTHER -> {<<>>}

HeaderObjects ==
  {Spread(a, Spread(b, d)) :
     a \in Opt("X-Mc-Auth", {"evil", "tok-1"}), b \in Opt("Content-Type", {"text/plain"}),
     d \in Opt("Accept", {"*/*"})}

\* RequestInit values a caller of request may pass.
RequestOptions ==
  {Spread(m, h) :
     m \in Opt("method", {"POST", "DELETE"}),
     h \in {EmptyObject} \cup {[k \in {"headers"} |-> x] : x \in HeaderObjects}}

Applied(name, args, up, r) ==
  /\ last.kind = "none"
  /\ last' = [kind |-> "client", name |-> name, args |-> args,
              up |-> IF r.fetches = <<>> THEN NoUpstream ELSE up, result |-> r]
  /\ UNCHANGED <<env, phase, client, stderr, exitCode, served, failedBefore>>

DoRequest ==
  \E options \in RequestOptions, up \in Upstreams({<<>>}) :
    Applied("request", [NoArgs EXCEPT !.defined = TRUE], up,
            request(client, [path |-> "/admin/simpleProfiles",
                             query |-> [userId |-> client.userId]], options, up))

DoGetBrands ==
  \E up \in Upstreams(BrandLists) :
    Applied("getBrands", NoArgs, up, getBrands(client, up))

DoSchedulePost ==
  \E params \in SchedulePostArgs \ {NoArgs}, up \in Upstreams(ScheduleResults) :
    Applied("schedulePost", params, up, schedulePost(client, params, up))

DoGetScheduledPosts ==
  \E brandId \in BrandIds, up \in Upstreams(ClientTypedFor("metricool_get_scheduled_posts")) :
    Applied("getScheduledPosts", [EmptyArgs EXCEPT !.brandId = brandId], up,
            getScheduledPosts(client, brandId, up))

DoGetAnalytics ==
  \E params \in AnalyticsArgs \ {NoArgs}, up \in Upstreams(ClientTypedFor("metricool_get_analytics")) :
    Applied("getAnalytics", params, up, getAnalytics(client, params, up))

DoGetBestTime ==
  \E brandId \in BrandIds, up \in Upstreams(ClientTypedFor("metricool_get_best_time")) :
    Applied("getBestTime", [EmptyArgs EXCEPT !.brandId = brandId], up,
            getBestTime(client, brandId, up))

DoDeleteScheduledPost ==
  \E postId \in {"41", "42"}, up \in Upstreams({<<>>}) :
    Applied("deleteScheduledPost", [EmptyArgs EXCEPT !.brandId = postId], up,
            deleteScheduledPost(client, postId, up))

DoCallTool ==
  \E name \in ToolNames :
    \E args \in ArgsFor(name), up \in Upstreams(ClientTypedFor(name)) :
      LET res == CallToolHandler(client, name, args, up) IN
      /\ last.kind = "none"
      /\ last' = [kind |-> "done", name |-> name, args |-> args,
                  up |-> IF res.fetches = <<>> THEN NoUpstream ELSE up, result |-> res]
      /\ phase' = IF res.uncaught THEN "crashed" ELSE "running"
      /\ UNCHANGED <<env, client, stderr, exitCode, served, failedBefore>>

NextClient ==
  \/ DoRequest
  \/ DoGetBrands
  \/ DoSchedulePost
  \/ DoGetScheduledPosts
  \/ DoGetAnalytics
  \/ DoGetBestTime
  \/ DoDeleteScheduledPost
  \/ DoCallTool

SpecClient == InitClient /\ [][NextClient]_vars

(***************************************************************************)
(* Properties.                                                             *)
(***************************************************************************)
Done == last.kind = "done"

IsCatalog(name) ==
  name \in {"metricool_get_brands", "metricool_schedule_post",
            "metricool_get_scheduled_posts", "metricool_get_analytics",
            "metricool_get_best_time"}

Fetched(l) == l.result.fetches # <<>>

Non2xx(up) == up.kind = "response" /\ (up.status < 200 \/ up.status > 299)

Is2xx(up) == up.kind = "response" /\ up.status >= 200 /\ up.status <= 299

NetworkFailure(up) == up.kind = "reject"

\* A 2xx answer whose JSON is an object without the fields the reshaping reads.
ReshapeFails(l) ==
  /\ Is2xx(l.up)
  /\ l.up.json = "empty_object"
  /\ l.name \in {"metricool_get_brands", "metricool_schedule_post", "metricool_get_analytics"}

FailedInvocation(l) ==
  /\ l.kind = "done"
  /\ IsCatalog(l.name)
  /\ Fetched(l)
  /\ (Non2xx(l.up) \/ NetworkFailure(l.up) \/ ReshapeFails(l))

ConfiguredClient == [token |-> env.METRICOOL_TOKEN, userId |-> env.METRICOOL_USER_ID]

\* C1: a failure while servicing an invocation (upstream non-2xx, network failure,
\* exception while reshaping) is caught by the handler and returned as a payload
\* with isError = true and body {success: false, error: <message>}; the process
\* keeps running with its client unchanged, and every invocation, whatever failed
\* before it, is answered as the handler answers its request and its upstream
\* response under the configuration read at start-up.
C1_FailureIsContained ==
  [][(last.kind = "pending" /\ last'.kind = "done") =>
       /\ FailedInvocation(last') =>
            /\ last'.result.threw
            /\ ~last'.result.uncaught
            /\ last'.result.isError
            /\ last'.result.body = [success |-> FALSE, error |-> last'.result.error.message]
       /\ phase' = "running"
       /\ client' = client
       /\ last'.result = CallToolHandler(ConfiguredClient, last.name, last.args, last'.up)]_vars

C1_Witness ==
  /\ failedBefore
  /\ Done
  /\ IsCatalog(last.name)
  /\ ~last.result.isError
  /\ Fetched(last)

\* C2: a name outside the catalog gets a payload with isError = true whose text
\* holds "Unknown tool: <name>", and no request is issued for it.
C2_UnknownTool ==
  (Done /\ ~IsCatalog(last.name)) =>
    /\ last.result.isError
    /\ last.result.body = [error |-> <<"Unknown tool: ", last.name>>]
    /\ last.result.fetches = <<>>
    /\ last.up = NoUpstream

C2_Witness ==
  /\ Done
  /\ last.name = "metricool_delete_scheduled_post"
  /\ last.args.defined
  /\ last.result.isError

\* C3: for each of the six client operations, a response whose status is outside
\* 200-299 makes the operation throw an error whose message holds the status code
\* and the raw body text, and no value is returned; through the handler the same
\* message is the error of the failure-flagged payload.
C3_Non2xxFails ==
  /\ (last.kind = "client" /\ Non2xx(last.up)) =>
       /\ last.result.threw
       /\ last.result.error.isError
       /\ Contains(last.result.error.message, ToString(last.up.status))
       /\ Contains(last.result.error.message, last.up.text)
       /\ last.result.json = "none"
  /\ (last.kind = "done" /\ Fetched(last) /\ Non2xx(last.up)) =>
       /\ last.result.isError
       /\ last.result.body.success = FALSE
       /\ Contains(last.result.body.error, ToString(last.up.status))
       /\ Contains(last.result.body.error, last.up.text)
       /\ last.result.body.error = last.result.error.message

C3_Witness ==
  /\ last.kind = "client"
  /\ last.name = "deleteScheduledPost"
  /\ last.up.kind = "response"
  /\ last.up.status = 403
  /\ last.up.text = "forbidden"
  /\ last.result.threw

FetchHeaders(l) == l.result.fetches[1].init.headers

\* C4: every request carries X-Mc-Auth equal to the configured token and
\* Content-Type application/json, whatever options (options.headers included) the
\* caller of request passes.
C4_AuthHeaderNotOverridable ==
  (last.kind = "client" /\ Fetched(last)) =>
    /\ Len(last.result.fetches) = 1
    /\ FetchHeaders(last)["X-Mc-Auth"] = client.token
    /\ FetchHeaders(last)["Content-Type"] = "application/json"

\* C5 as stated: an invocation issues no request for an unknown tool and exactly
\* one for a catalog tool, whatever the outcome.
C5_ExactlyOneForCatalogTool ==
  Done => Len(last.result.fetches) = IF IsCatalog(last.name) THEN 1 ELSE 0

\* The handler of a catalog tool reaches the client's request: always for
\* get_brands; for the others when the invocation carries an arguments object
\* (and, for get_analytics, no startDate or endDate that is a truthy non-string).
ReachesRequest(l) ==
  /\ IsCatalog(l.name)
  /\ \/ l.name = "metricool_get_brands"
     \/ /\ l.args.defined
        /\ l.name = "metricool_get_analytics" =>
             (l.args.startDate # NONSTR /\ l.args.endDate # NONSTR)

\* C5, amended: an invocation issues at most one request, whatever the outcome of
\* that request, with no retry: none for an unknown tool, none for a catalog tool
\* whose handler throws before it reaches the client's request, exactly one
\* otherwise.
C5_AtMostOneRequest ==
  Done =>
    /\ Len(last.result.fetches) <= 1
    /\ Len(last.result.fetches) = IF ReachesRequest(last) THEN 1 ELSE 0
    /\ (~Fetched(last)) => last.up = NoUpstream

C5_Witness ==
  /\ Done
  /\ last.name = "metricool_schedule_post"
  /\ NetworkFailure(last.up)
  /\ last.result.isError
  /\ Len(last.result.fetches) = 1

UpstreamList(l) == IF l.up.json = "typed" THEN l.up.data ELSE <<>>

ListingAnswered(l, name) ==
  /\ l.kind = "done"
  /\ l.name = name
  /\ Fetched(l)
  /\ Is2xx(l.up)
  /\ l.up.json \in {"typed", "empty_object"}

PendingPost(p) == \E i \in 1..Len(p.providers) : p.providers[i].status = "PENDING"

\* C6: get_scheduled_posts returns exactly the upstream posts with at least one
\* provider whose status is exactly "PENDING", in upstream order, and count is
\* their number; a post without providers, or with providers in other statuses
\* only, is not returned.
C6_PendingPostsOnly ==
  ListingAnswered(last, "metricool_get_scheduled_posts") =>
    LET posts == UpstreamList(last)
        body == last.result.body
    IN /\ ~last.result.isError
       /\ body.success
       /\ body.count = Len(body.posts)
       /\ body.count = Cardinality({i \in 1..Len(posts) : PendingPost(posts[i])})
       /\ \A i \in 1..Len(posts) :
            PendingPost(posts[i]) <=>
              \E k \in 1..Len(body.posts) :
                body.posts[k].id = posts[i].id /\ body.posts[k].uuid = posts[i].uuid
       /\ \A k, m \in 1..Len(body.posts) : k < m => body.posts[k].id < body.posts[m].id

C6_Witness ==
  /\ ListingAnswered(last, "metricool_get_scheduled_posts")
  /\ Len(UpstreamList(last)) = 2
  /\ UpstreamList(last)[1].providers = <<>>
  /\ PendingPost(UpstreamList(last)[2])
  /\ last.result.body.count = 1

\* A record's contribution as C7 states it: the plural field when it is present,
\* the singular one only when the plural is absent, zero for a missing field.
PresentOr(p, f, rest) == IF f \in DOMAIN p THEN p[f] ELSE rest

ClaimedRecordStats(p) ==
  [impressions |-> PresentOr(p, "impressions", 0),
   engagements |-> PresentOr(p, "engagements", PresentOr(p, "engagement", 0)),
   clicks |-> PresentOr(p, "clicks", 0),
   likes |-> PresentOr(p, "likes", PresentOr(p, "reactions", 0)),
   comments |-> PresentOr(p, "comments", 0),
   shares |-> PresentOr(p, "shares", 0)]

RECURSIVE ClaimedTotals(_)
ClaimedTotals(posts) ==
  IF posts = <<>> THEN ZeroTotals
  ELSE [f \in DOMAIN ZeroTotals |->
          ClaimedTotals(Tail(posts))[f] + ClaimedRecordStats(Head(posts))[f]]

\* C7: the totals of get_analytics are the sums over all records of impressions,
\* engagements, clicks, likes, comments and shares, a record's engagements being
\* its `engagements` field when present and `engagement` only when the plural is
\* absent (likewise likes, then reactions), a missing field counting as zero.
C7_TotalsUsePresentField ==
  (Done /\ last.name = "metricool_get_analytics" /\ Fetched(last) /\ Is2xx(last.up)
     /\ last.up.json = "typed") =>
    LET claimed == ClaimedTotals(last.up.data)
        summary == last.result.body.summary
    IN /\ ~last.result.isError
       /\ \A f \in DOMAIN claimed : summary[f] = claimed[f]

\* C8: topSlots has min(5, number of upstream slots) entries, ordered by score
\* descending, slots of equal score in their upstream order, and no slot left
\* out precedes, in that order, a slot that is kept.
C8_TopSlotsStable ==
  ListingAnswered(last, "metricool_get_best_time") =>
    LET slots == UpstreamList(last)
        top == last.result.body.topSlots
        Matches(k, i) ==
          /\ top[k].time = formatHour(slots[i].hour)
          /\ top[k].day = DAYS_OF_WEEK[slots[i].dayOfWeek + 1]
          /\ top[k].score = slots[i].score
        Before(i, j) ==
          \/ slots[i].score > slots[j].score
          \/ slots[i].score = slots[j].score /\ i < j
    IN /\ ~last.result.isError
       /\ Len(top) = Min(5, Len(slots))
       /\ \A k \in 1..Len(top) : \E i \in 1..Len(slots) : Matches(k, i)
       /\ LET pos == [k \in 1..Len(top) |-> CHOOSE i \in 1..Len(slots) : Matches(k, i)]
          IN /\ \A k, m \in 1..Len(top) : k < m => Before(pos[k], pos[m])
             /\ \A j \in 1..Len(slots) :
                  (\A k \in 1..Len(top) : pos[k] # j) =>
                    \A k \in 1..Len(top) : Before(pos[k], j)

C8_Witness ==
  /\ ListingAnswered(last, "metricool_get_best_time")
  /\ Len(UpstreamList(last)) = 6
  /\ \A i \in 1..6 : UpstreamList(last)[i].score = (IF i \in {2, 5} THEN 2 ELSE 3)
  /\ Len(last.result.body.topSlots) = 5
  /\ last.result.body.topSlots[5].score = 2
  /\ last.result.body.topSlots[5].time = "12:00 PM"

EnvIncomplete ==
  \/ env.METRICOOL_TOKEN \in {UNDEF, ""}
  \/ env.METRICOOL_USER_ID \in {UNDEF, ""}

\* C9: when the token or the user id is absent or empty at start-up, the process
\* exits with a non-zero status after the diagnostic message and serves no tool
\* discovery and no invocation; a request is handled only after both values were
\* validated and the transport connected.
C9_NoServiceWithoutConfiguration ==
  /\ (EnvIncomplete /\ phase # "load") =>
       /\ phase = "exited"
       /\ exitCode = <<1>>
       /\ stderr = <<DiagnosticMissingEnv>>
  /\ (last.kind # "none" \/ served > 0) =>
       /\ ~EnvIncomplete
       /\ client = ConfiguredClient
       /\ exitCode = <<>>
       /\ stderr = <<"Metricool MCP server running on stdio">>

C9_Witness ==
  /\ env.METRICOOL_TOKEN = "tok-1"
  /\ env.METRICOOL_USER_ID = ""
  /\ phase = "exited"
  /\ exitCode = <<1>>
  /\ served = 0

\* C10: metricool_schedule_post can schedule to a network other than LinkedIn: an
\* invocation asking for such a network issues a creation request whose providers
\* list names it and which omits the LinkedIn payload.
C10_SchedulesRequestedNetwork ==
  (Done /\ last.name = "metricool_schedule_post" /\ Fetched(last)
     /\ last.args.network \notin {UNDEF, "", "linkedin"}) =>
    LET body == last.result.fetches[1].init.body
    IN /\ body.providers = <<[network |-> last.args.network]>>
       /\ "linkedinData" \notin DOMAIN body

====
